---- MODULE Spec2Model ----
(***************************************************************************)
(* Route lineage classifier of scripts/main.py (class RouteAnalyzer):      *)
(* prepare_data orders the fetched rows and initialises the output         *)
(* columns, analyze_routes scans every row backwards over the earlier rows *)
(* and compare_and_update_routes compares one pair of rows.                *)
(*                                                                         *)
(* Rows are records whose fields carry the column names of the dataframe.  *)
(* Python indexes the dataframe from 0, the sequences here start at 1:     *)
(* row i of the code is df[i + 1] of the model.                            *)
(***************************************************************************)
EXTENDS Integers, Sequences, FiniteSets, TLC

\* Largest number of rows a fetched dataset holds.
MaxRecords == 3

\* Largest number of times analyze_routes is run over the same dataframe.
MaxPasses == 2

\* scripts/__init__.py: MIN_MATCHING_KEY_THRESHOLD
MIN_MATCHING_KEY_THRESHOLD == 3

\* Python's None, as stored in the object columns of the dataframe.
None == "None"

\* pandas' NaT, what to_datetime(errors='coerce') leaves for unparsable text.
NaT == "NaT"

\* The two values of category_route, transliterated from the Russian of the
\* source ("new route", "change in the route").
NewRoute == "Novyi marshrut"
ChangedRoute == "Izmenenie v marshrute"

\* RouteAnalyzer.__init__: self.key_columns
key_columns ==
    << "departure_station_code_of_rf",
       "destination_station_code_of_rf",
       "payer_of_the_railway_tariff_unified",
       "shipper_okpo",
       "consignee_okpo" >>

\* RouteAnalyzer.__init__: self.old_value_mapping
old_value_mapping ==
    [ departure_station_code_of_rf |-> "departure_station_of_the_rf",
      destination_station_code_of_rf |-> "rf_destination_station",
      payer_of_the_railway_tariff_unified |-> "payer_of_the_railway_tariff_unified",
      shipper_okpo |-> "shipper_by_puzt",
      consignee_okpo |-> "consignee_by_puzt" ]

(***************************************************************************)
(* The fetched rows.  Columns the classifier never reads (route_month,     *)
(* route_year, teu, text_route_number_count, the regions) are not carried. *)
(***************************************************************************)

\* The two values every key column takes in the datasets explored.
FirstValue ==
    [ departure_station_code_of_rf |-> "001",
      destination_station_code_of_rf |-> "100",
      payer_of_the_railway_tariff_unified |-> "PAYER1",
      shipper_okpo |-> "SHIP1",
      consignee_okpo |-> "CONS1" ]

SecondValue ==
    [ departure_station_code_of_rf |-> "002",
      destination_station_code_of_rf |-> "200",
      payer_of_the_railway_tariff_unified |-> "PAYER2",
      shipper_okpo |-> "SHIP2",
      consignee_okpo |-> "CONS2" ]

\* The display name the source table holds next to a code.
DisplayName(code) == "name of " \o code

\* route_min_date as the source table delivers it: date-time text.
RawDates == { "2024-01-01 03:00:00", "2024-02-01 03:00:00", "not a date" }

\* The shapes of a row: its transport type and the key columns in which it
\* carries the second value instead of the first.
Shapes ==
    { [type |-> "TYPE1", alt |-> {}],
      [type |-> "TYPE1", alt |-> {"payer_of_the_railway_tariff_unified"}],
      [type |-> "TYPE1", alt |-> {"payer_of_the_railway_tariff_unified", "shipper_okpo"}],
      [type |-> "TYPE1", alt |-> {"payer_of_the_railway_tariff_unified", "shipper_okpo",
                                   "consignee_okpo"}],
      [type |-> "TYPE1", alt |-> {"departure_station_code_of_rf"}],
      [type |-> "TYPE1", alt |-> {"destination_station_code_of_rf", "consignee_okpo"}],
      [type |-> "TYPE1", alt |-> {"departure_station_code_of_rf",
                                   "destination_station_code_of_rf"}],
      [type |-> "TYPE2", alt |-> {}] }

\* Values are only ever compared for equality, column by column, so the first
\* fetched row carries the first value of every column.
BaseShape == [type |-> "TYPE1", alt |-> {}]

KeyValue(shape, col) ==
    IF col \in shape.alt THEN SecondValue[col] ELSE FirstValue[col]

\* text_route_number of the route with numeric suffix n (the prefix is
\* written in Latin letters here, the source writes it in Cyrillic).
RouteNumber(n) == "M_" \o ToString(n)

RawRow(n, datetext, shape) ==
    [ text_route_number |-> RouteNumber(n),
      route_min_date |-> datetext,
      type_of_transportation |-> shape.type,
      departure_station_code_of_rf |-> KeyValue(shape, "departure_station_code_of_rf"),
      destination_station_code_of_rf |-> KeyValue(shape, "destination_station_code_of_rf"),
      payer_of_the_railway_tariff_unified |->
          KeyValue(shape, "payer_of_the_railway_tariff_unified"),
      shipper_okpo |-> KeyValue(shape, "shipper_okpo"),
      consignee_okpo |-> KeyValue(shape, "consignee_okpo"),
      departure_station_of_the_rf |->
          DisplayName(KeyValue(shape, "departure_station_code_of_rf")),
      rf_destination_station |->
          DisplayName(KeyValue(shape, "destination_station_code_of_rf")),
      shipper_by_puzt |-> DisplayName(KeyValue(shape, "shipper_okpo")),
      consignee_by_puzt |-> DisplayName(KeyValue(shape, "consignee_okpo")) ]

VARIABLES
    pc,      \* the stage run() has reached
    df,      \* the dataframe: the fetched rows, then the prepared rows
    i,       \* analyze_routes: index of the current row (outer loop)
    j,       \* analyze_routes: index of the candidate row (inner loop)
    passes,  \* how many times analyze_routes has been entered
    calls,   \* the methods and client calls entered so far, in order
    status,  \* "running", or the exit status of the process: "0" or "1"
    raised,  \* the stages in which an exception was raised
    table    \* the rows of the destination table new_route

vars == << pc, df, i, j, passes, calls, status, raised, table >>

(***************************************************************************)
(* prepare_data                                                            *)
(***************************************************************************)

\* pd.to_datetime(text, errors='coerce').dt.date
ToDate(text) ==
    CASE text = "2024-01-01 03:00:00" -> "2024-01-01"
      [] text = "2024-02-01 03:00:00" -> "2024-02-01"
      [] OTHER -> NaT

\* The calendar order of the dates.
DateRank(d) ==
    CASE d = "2024-01-01" -> 1
      [] d = "2024-02-01" -> 2

\* df['text_route_number'].str.replace('M_', '').astype('uint32')
TextRouteNumberInt(text) ==
    CHOOSE n \in 0..(MaxRecords + 1) : text = RouteNumber(n)

\* The sort order without its second key: rows of one date are not ordered by
\* their route number.
SortKeyLess_DateOnly(a, b) ==
    IF a.route_min_date # b.route_min_date
    THEN IF a.route_min_date = NaT THEN FALSE
         ELSE IF b.route_min_date = NaT THEN TRUE
         ELSE DateRank(a.route_min_date) < DateRank(b.route_min_date)
    ELSE FALSE

\* The order sort_values(by=['route_min_date', 'text_route_number_int'])
\* sorts by: ascending, missing dates last.
SortKeyLess(a, b) ==
    IF a.route_min_date # b.route_min_date
    THEN IF a.route_min_date = NaT THEN FALSE
         ELSE IF b.route_min_date = NaT THEN TRUE
         ELSE DateRank(a.route_min_date) < DateRank(b.route_min_date)
    ELSE TextRouteNumberInt(a.text_route_number)
             < TextRouteNumberInt(b.text_route_number)

InsertSorted(row, sorted) ==
    LET k == Cardinality({p \in 1..Len(sorted) : ~SortKeyLess(row, sorted[p])})
    IN SubSeq(sorted, 1, k) \o << row >> \o SubSeq(sorted, k + 1, Len(sorted))

RECURSIVE SortValues(_)
SortValues(rows) ==
    IF rows = << >> THEN << >>
    ELSE InsertSorted(rows[Len(rows)], SortValues(SubSeq(rows, 1, Len(rows) - 1)))

\* The four output columns prepare_data adds to a row.
WithOutputColumns(row) ==
    [ text_route_number |-> row.text_route_number,
      route_min_date |-> row.route_min_date,
      type_of_transportation |-> row.type_of_transportation,
      departure_station_code_of_rf |-> row.departure_station_code_of_rf,
      destination_station_code_of_rf |-> row.destination_station_code_of_rf,
      payer_of_the_railway_tariff_unified |-> row.payer_of_the_railway_tariff_unified,
      shipper_okpo |-> row.shipper_okpo,
      consignee_okpo |-> row.consignee_okpo,
      departure_station_of_the_rf |-> row.departure_station_of_the_rf,
      rf_destination_station |-> row.rf_destination_station,
      shipper_by_puzt |-> row.shipper_by_puzt,
      consignee_by_puzt |-> row.consignee_by_puzt,
      category_route |-> NewRoute,
      old_text_route_number |-> None,
      changed_field |-> None,
      old_value_field |-> None ]

prepare_data(rows) ==
    LET dated == [k \in 1..Len(rows) |->
                     [rows[k] EXCEPT !.route_min_date = ToDate(@)]]
        sorted == SortValues(dated)
    IN [k \in 1..Len(sorted) |-> WithOutputColumns(sorted[k])]

(***************************************************************************)
(* compare_and_update_routes                                               *)
(***************************************************************************)

\* current_route['route_min_date'] == previous_route['route_min_date']:
\* pandas' NaT equals nothing, itself included.
DateEq(a, b) == a # NaT /\ b # NaT /\ a = b

\* (current_route[key_columns] == previous_route[key_columns]).astype(int)
matching_values(current_route, previous_route) ==
    [col \in {key_columns[k] : k \in 1..Len(key_columns)} |->
        IF current_route[col] = previous_route[col] THEN 1 ELSE 0]

RECURSIVE SumOver(_, _)
SumOver(f, cols) ==
    IF cols = << >> THEN 0 ELSE f[Head(cols)] + SumOver(f, Tail(cols))

\* ', '.join(strings)
RECURSIVE Join(_)
Join(strings) ==
    IF strings = << >> THEN ""
    ELSE IF Len(strings) = 1 THEN strings[1]
    ELSE strings[1] \o ", " \o Join(Tail(strings))

\* UpdateOldFields with the comparison turned round: it lists the key columns
\* that match instead of those that changed.
UpdateOldFields_ListsMatching(row, previous_route, matching) ==
    LET changed_fields == SelectSeq(key_columns, LAMBDA col : matching[col] = 1)
        old_values == [k \in 1..Len(changed_fields) |->
                          previous_route[old_value_mapping[changed_fields[k]]]]
    IN [row EXCEPT !.old_text_route_number = previous_route.text_route_number,
                   !.changed_field = Join(changed_fields),
                   !.old_value_field = Join(old_values)]

\* UpdateOldFields listing the changed key columns from the last to the first.
UpdateOldFields_ReversedOrder(row, previous_route, matching) ==
    LET in_order == SelectSeq(key_columns, LAMBDA col : matching[col] = 0)
        changed_fields == [k \in 1..Len(in_order) |-> in_order[Len(in_order) + 1 - k]]
        old_values == [k \in 1..Len(changed_fields) |->
                          previous_route[old_value_mapping[changed_fields[k]]]]
    IN [row EXCEPT !.old_text_route_number = previous_route.text_route_number,
                   !.changed_field = Join(changed_fields),
                   !.old_value_field = Join(old_values)]

\* UpdateOldFields without old_value_mapping: the old values are the
\* predecessor's codes, not its display names.
UpdateOldFields_RawCodes(row, previous_route, matching) ==
    LET changed_fields == SelectSeq(key_columns, LAMBDA col : matching[col] = 0)
        old_values == [k \in 1..Len(changed_fields) |->
                          previous_route[changed_fields[k]]]
    IN [row EXCEPT !.old_text_route_number = previous_route.text_route_number,
                   !.changed_field = Join(changed_fields),
                   !.old_value_field = Join(old_values)]

\* The block under "if pd.isna(df.loc[current_index, 'old_text_route_number'])".
UpdateOldFields(row, previous_route, matching) ==
    LET changed_fields == SelectSeq(key_columns, LAMBDA col : matching[col] = 0)
        old_values == [k \in 1..Len(changed_fields) |->
                          previous_route[old_value_mapping[changed_fields[k]]]]
    IN [row EXCEPT !.old_text_route_number = previous_route.text_route_number,
                   !.changed_field = Join(changed_fields),
                   !.old_value_field = Join(old_values)]

\* compare_and_update_routes without the type_of_transportation test.
compare_and_update_routes_NoTypeTest(frame, current_index, previous_index) ==
    LET current_route == frame[current_index]
        previous_route == frame[previous_index]
        matching == matching_values(current_route, previous_route)
    IN IF DateEq(current_route.route_min_date, previous_route.route_min_date)
       THEN [df |-> frame, result |-> FALSE]
       ELSE IF SumOver(matching, key_columns) < MIN_MATCHING_KEY_THRESHOLD
       THEN [df |-> frame, result |-> FALSE]
       ELSE [ df |-> IF frame[current_index].old_text_route_number = None
                     THEN [frame EXCEPT ![current_index] =
                              UpdateOldFields(@, previous_route, matching)]
                     ELSE frame,
              result |-> /\ matching["departure_station_code_of_rf"] = 1
                         /\ matching["destination_station_code_of_rf"] = 1 ]

\* compare_and_update_routes without its final corridor test: a candidate that
\* passes the date, type and threshold tests is reported as a match.
compare_and_update_routes_NoCorridorTest(frame, current_index, previous_index) ==
    LET current_route == frame[current_index]
        previous_route == frame[previous_index]
        matching == matching_values(current_route, previous_route)
    IN IF DateEq(current_route.route_min_date, previous_route.route_min_date)
       THEN [df |-> frame, result |-> FALSE]
       ELSE IF current_route.type_of_transportation
                   # previous_route.type_of_transportation
       THEN [df |-> frame, result |-> FALSE]
       ELSE IF SumOver(matching, key_columns) < MIN_MATCHING_KEY_THRESHOLD
       THEN [df |-> frame, result |-> FALSE]
       ELSE [ df |-> IF frame[current_index].old_text_route_number = None
                     THEN [frame EXCEPT ![current_index] =
                              UpdateOldFields(@, previous_route, matching)]
                     ELSE frame,
              result |-> TRUE ]

\* compare_and_update_routes without the pd.isna test: every candidate that
\* passes the date, type and threshold tests overwrites the old fields.
compare_and_update_routes_Overwrites(frame, current_index, previous_index) ==
    LET current_route == frame[current_index]
        previous_route == frame[previous_index]
        matching == matching_values(current_route, previous_route)
    IN IF DateEq(current_route.route_min_date, previous_route.route_min_date)
       THEN [df |-> frame, result |-> FALSE]
       ELSE IF current_route.type_of_transportation
                   # previous_route.type_of_transportation
       THEN [df |-> frame, result |-> FALSE]
       ELSE IF SumOver(matching, key_columns) < MIN_MATCHING_KEY_THRESHOLD
       THEN [df |-> frame, result |-> FALSE]
       ELSE [ df |-> [frame EXCEPT ![current_index] =
                         UpdateOldFields(@, previous_route, matching)],
              result |-> /\ matching["departure_station_code_of_rf"] = 1
                         /\ matching["destination_station_code_of_rf"] = 1 ]

\* compare_and_update_routes with the pd.isna test guarding the predecessor
\* alone: changed_field and old_value_field are written at every candidate
\* that passes the date, type and threshold tests.
compare_and_update_routes_GuardsOnlyPredecessor(frame, current_index, previous_index) ==
    LET current_route == frame[current_index]
        previous_route == frame[previous_index]
        matching == matching_values(current_route, previous_route)
    IN IF DateEq(current_route.route_min_date, previous_route.route_min_date)
       THEN [df |-> frame, result |-> FALSE]
       ELSE IF current_route.type_of_transportation
                   # previous_route.type_of_transportation
       THEN [df |-> frame, result |-> FALSE]
       ELSE IF SumOver(matching, key_columns) < MIN_MATCHING_KEY_THRESHOLD
       THEN [df |-> frame, result |-> FALSE]
       ELSE [ df |-> IF frame[current_index].old_text_route_number = None
                     THEN [frame EXCEPT ![current_index] =
                              UpdateOldFields(@, previous_route, matching)]
                     ELSE [frame EXCEPT ![current_index] =
                              [UpdateOldFields(@, previous_route, matching)
                                  EXCEPT !.old_text_route_number =
                                             current_route.old_text_route_number]],
              result |-> /\ matching["departure_station_code_of_rf"] = 1
                         /\ matching["destination_station_code_of_rf"] = 1 ]

\* compare_and_update_routes writing the old fields into the candidate row
\* instead of the current row.
compare_and_update_routes_WritesCandidate(frame, current_index, previous_index) ==
    LET current_route == frame[current_index]
        previous_route == frame[previous_index]
        matching == matching_values(current_route, previous_route)
    IN IF DateEq(current_route.route_min_date, previous_route.route_min_date)
       THEN [df |-> frame, result |-> FALSE]
       ELSE IF current_route.type_of_transportation
                   # previous_route.type_of_transportation
       THEN [df |-> frame, result |-> FALSE]
       ELSE IF SumOver(matching, key_columns) < MIN_MATCHING_KEY_THRESHOLD
       THEN [df |-> frame, result |-> FALSE]
       ELSE [ df |-> IF frame[previous_index].old_text_route_number = None
                     THEN [frame EXCEPT ![previous_index] =
                              UpdateOldFields(@, current_route, matching)]
                     ELSE frame,
              result |-> /\ matching["departure_station_code_of_rf"] = 1
                         /\ matching["destination_station_code_of_rf"] = 1 ]

\* The dataframe after the call and the value the call returns.
compare_and_update_routes(frame, current_index, previous_index) ==
    LET current_route == frame[current_index]
        previous_route == frame[previous_index]
        matching == matching_values(current_route, previous_route)
    IN IF DateEq(current_route.route_min_date, previous_route.route_min_date)
       THEN [df |-> frame, result |-> FALSE]
       ELSE IF current_route.type_of_transportation
                   # previous_route.type_of_transportation
       THEN [df |-> frame, result |-> FALSE]
       ELSE IF SumOver(matching, key_columns) < MIN_MATCHING_KEY_THRESHOLD
       THEN [df |-> frame, result |-> FALSE]
       ELSE [ df |-> IF frame[current_index].old_text_route_number = None
                     THEN [frame EXCEPT ![current_index] =
                              UpdateOldFields(@, previous_route, matching)]
                     ELSE frame,
              result |-> /\ matching["departure_station_code_of_rf"] = 1
                         /\ matching["destination_station_code_of_rf"] = 1 ]

\* The inner loop of analyze_routes for the current row, from candidate
\* `cand` down to the first row: for j in reversed(range(i)), with the break.
RECURSIVE scan_candidates(_, _, _)
scan_candidates(frame, cur, cand) ==
    IF cand = 0 THEN frame
    ELSE LET call == compare_and_update_routes(frame, cur, cand)
         IN IF call.result
            THEN [call.df EXCEPT ![cur].category_route = ChangedRoute]
            ELSE scan_candidates(call.df, cur, cand - 1)

\* analyze_routes from row `cur` on, as a function of the dataframe: the
\* dataframe it returns. The method is analyze_routes(frame, 2).
RECURSIVE analyze_routes(_, _)
analyze_routes(frame, cur) ==
    IF cur > Len(frame) THEN frame
    ELSE analyze_routes(scan_candidates(frame, cur, cur - 1), cur + 1)

(***************************************************************************)
(* The run: the fetched rows, prepare_data, analyze_routes.                *)
(***************************************************************************)

\* A fetched dataset: route numbers are unique, and the rows arrive in an order
\* of their own, here by descending route number.
FetchedFrame(n, dates, shapes) ==
    [k \in 1..n |-> RawRow(n + 1 - k, dates[k], shapes[k])]

Init ==
    /\ pc = "fetched"
    /\ \E n \in 1..MaxRecords :
          \E dates \in [1..n -> RawDates], shapes \in [1..n -> Shapes] :
             /\ shapes[1] = BaseShape
             /\ df = FetchedFrame(n, dates, shapes)
    /\ i = 0
    /\ j = 0
    /\ passes = 0
    /\ calls = << "connect_to_db", "fetch_data" >>
    /\ status = "running"
    /\ raised = {}
    /\ table = << >>

\* astype('uint32') accepts the text that is left of a route number when the
\* prefix is removed: the text is a number.
IsNumbered(text) == \E n \in 0..(MaxRecords + 1) : text = RouteNumber(n)

\* run(): df = self.prepare_data(df), every route number being a number.
PrepareData ==
    /\ pc = "fetched"
    /\ \A k \in 1..Len(df) : IsNumbered(df[k].text_route_number)
    /\ df' = prepare_data(df)
    /\ pc' = "prepared"
    /\ calls' = Append(calls, "prepare_data")
    /\ UNCHANGED << i, j, passes, status, raised, table >>

\* The outer loop of analyze_routes moves on to the row after `cur`, or the
\* method returns when there is none.
NextRow(cur) ==
    IF cur < Len(df)
    THEN /\ i' = cur + 1
         /\ j' = cur
         /\ pc' = "scan"
    ELSE /\ i' = 0
         /\ j' = 0
         /\ pc' = "analyzed"

\* analyze_routes with its loops starting at the first row and scanning the
\* whole dataframe: for i in range(len(df)), for j in reversed(range(len(df))).
AnalyzeRoutes_FromFirstRow ==
    /\ \/ pc = "prepared"
       \/ pc = "analyzed" /\ passes < MaxPasses
    /\ passes' = passes + 1
    /\ i' = 1
    /\ j' = Len(df)
    /\ pc' = "scan"
    /\ calls' = Append(calls, "analyze_routes")
    /\ UNCHANGED << df, status, raised, table >>

\* analyze_routes is entered: for i in range(1, len(df)).
AnalyzeRoutes ==
    /\ \/ pc = "prepared"
       \/ pc = "analyzed" /\ passes < MaxPasses
    /\ passes' = passes + 1
    /\ NextRow(1)
    /\ calls' = Append(calls, "analyze_routes")
    /\ UNCHANGED << df, status, raised, table >>

\* ScanStep with an else branch that writes the default category back when
\* the candidate does not match.
ScanStep_ResetsCategory ==
    /\ pc = "scan"
    /\ LET call == compare_and_update_routes(df, i, j)
       IN IF call.result
          THEN /\ df' = [call.df EXCEPT ![i].category_route = ChangedRoute]
               /\ NextRow(i)
          ELSE /\ df' = [call.df EXCEPT ![i].category_route = NewRoute]
               /\ IF j > 1
                  THEN /\ j' = j - 1
                       /\ UNCHANGED << i, pc >>
                  ELSE NextRow(i)
    /\ UNCHANGED << passes, calls, status, raised, table >>

\* One iteration of the inner loop, for j in reversed(range(i)): the call of
\* compare_and_update_routes, and on True the category and the break.
ScanStep ==
    /\ pc = "scan"
    /\ LET call == compare_and_update_routes(df, i, j)
       IN IF call.result
          THEN /\ df' = [call.df EXCEPT ![i].category_route = ChangedRoute]
               /\ NextRow(i)
          ELSE /\ df' = call.df
               /\ IF j > 1
                  THEN /\ j' = j - 1
                       /\ UNCHANGED << i, pc >>
                  ELSE NextRow(i)
    /\ UNCHANGED << passes, calls, status, raised, table >>

Next ==
    \/ PrepareData
    \/ AnalyzeRoutes
    \/ ScanStep

Spec == Init /\ [][Next]_vars

(***************************************************************************)
(* The process: RouteAnalyzer() and run(), with the outcomes of the client *)
(* calls and of the file write.                                            *)
(***************************************************************************)

\* A route number that is no number once the prefix is removed.
MalformedRouteNumber == "M_x"

\* The fetched dataset with the route number of row `bad` malformed; no row
\* is when bad = 0.
WithMalformed(frame, bad) ==
    [k \in 1..Len(frame) |->
        IF k = bad THEN [frame[k] EXCEPT !.text_route_number = MalformedRouteNumber]
        ELSE frame[k]]

\* The destination table before the process starts: what an earlier run
\* inserted, here one classified row.
PriorTable ==
    prepare_data(FetchedFrame(1, [k \in 1..1 |-> "2024-01-01 03:00:00"],
                                 [k \in 1..1 |-> BaseShape]))

InitRun ==
    /\ pc = "start"
    /\ df = << >>
    /\ i = 0
    /\ j = 0
    /\ passes = 0
    /\ calls = << >>
    /\ status = "running"
    /\ raised = {}
    /\ table = PriorTable

\* __init__: self.client = self.connect_to_db(): the client is made and
\* DELETE FROM new_route WHERE uuid is not NULL empties the destination
\* table; or get_client or one of the two queries raises, the error is logged
\* and sys.exit(1) ends the process.
ConnectToDb ==
    /\ pc = "start"
    /\ calls' = Append(calls, "connect_to_db")
    /\ \/ /\ pc' = "connected"
          /\ table' = << >>
          /\ UNCHANGED << status, raised >>
       \/ /\ pc' = "exited"
          /\ status' = "1"
          /\ raised' = raised \cup {"connect"}
          /\ UNCHANGED table
    /\ UNCHANGED << df, i, j, passes >>

\* run(): df = self.fetch_data(): the query raises and sys.exit(1) ends the
\* process; or there are no rows, fetch_data returns None and run() returns;
\* or the rows become the dataframe.
FetchData ==
    /\ pc = "connected"
    /\ calls' = Append(calls, "fetch_data")
    /\ \/ /\ pc' = "exited"
          /\ status' = "1"
          /\ raised' = raised \cup {"fetch"}
          /\ UNCHANGED df
       \/ /\ pc' = "exited"
          /\ status' = "0"
          /\ UNCHANGED << df, raised >>
       \/ /\ \E n \in 1..MaxRecords :
                \E dates \in [1..n -> RawDates], shapes \in [1..n -> Shapes],
                   bad \in 0..n :
                   /\ shapes[1] = BaseShape
                   /\ df' = WithMalformed(FetchedFrame(n, dates, shapes), bad)
          /\ pc' = "fetched"
          /\ UNCHANGED << status, raised >>
    /\ UNCHANGED << i, j, passes, table >>

\* run(): df = self.prepare_data(df) with a route number that is no number:
\* the dates have been parsed in place when astype('uint32') raises; nothing
\* catches the exception, and the process ends with status 1.
PrepareDataRaises ==
    /\ pc = "fetched"
    /\ \E k \in 1..Len(df) : ~IsNumbered(df[k].text_route_number)
    /\ df' = [k \in 1..Len(df) |-> [df[k] EXCEPT !.route_min_date = ToDate(@)]]
    /\ pc' = "exited"
    /\ status' = "1"
    /\ raised' = raised \cup {"prepare"}
    /\ calls' = Append(calls, "prepare_data")
    /\ UNCHANGED << i, j, passes, table >>

\* run(): df = self.analyze_routes(df), once, on the prepared dataframe.
RunAnalyzeRoutes ==
    /\ pc = "prepared"
    /\ AnalyzeRoutes

\* run(): self.insert_data(df) is entered. df.replace leaves the modelled
\* columns as they are: none of them holds pd.NA or the text "NaT" (a date
\* that did not parse is the value pd.NaT).
InsertData ==
    /\ pc = "analyzed"
    /\ pc' = "insert_data"
    /\ calls' = Append(calls, "insert_data")
    /\ UNCHANGED << df, i, j, passes, status, raised, table >>

\* save_to_file whose exception nothing catches: the process ends.
SaveToFile_Uncaught ==
    /\ pc = "insert_data"
    /\ calls' = Append(calls, "save_to_file")
    /\ \/ /\ pc' = "saved"
          /\ UNCHANGED << status, raised >>
       \/ /\ pc' = "exited"
          /\ status' = "1"
          /\ raised' = raised \cup {"save"}
    /\ UNCHANGED << df, i, j, passes, table >>

\* insert_data: self.save_to_file(df): to_csv succeeds, or it raises and the
\* error is logged; save_to_file returns in both cases.
SaveToFile ==
    /\ pc = "insert_data"
    /\ calls' = Append(calls, "save_to_file")
    /\ \/ UNCHANGED raised
       \/ raised' = raised \cup {"save"}
    /\ pc' = "saved"
    /\ UNCHANGED << df, i, j, passes, status, table >>

\* insert_data: self.client.insert_df(...): it succeeds, the rows of the
\* dataframe are in the table, insert_data and run() return and the process
\* ends; or it raises, the error is logged and sys.exit(1) ends the process.
InsertDf ==
    /\ pc = "saved"
    /\ calls' = Append(calls, "insert_df")
    /\ pc' = "exited"
    /\ \/ /\ status' = "0"
          /\ table' = table \o df
          /\ UNCHANGED raised
       \/ /\ status' = "1"
          /\ raised' = raised \cup {"insert"}
          /\ UNCHANGED table
    /\ UNCHANGED << df, i, j, passes >>

NextRun ==
    \/ ConnectToDb
    \/ FetchData
    \/ PrepareData
    \/ PrepareDataRaises
    \/ RunAnalyzeRoutes
    \/ ScanStep
    \/ InsertData
    \/ SaveToFile
    \/ InsertDf

SpecRun == InitRun /\ [][NextRun]_vars

(***************************************************************************)
(* Vocabulary of the properties.                                           *)
(***************************************************************************)

KeyColumnSet == {key_columns[k] : k \in 1..Len(key_columns)}

\* The dataframe holds prepared rows (the output columns exist).
Prepared == pc # "fetched"

\* A run of analyze_routes has returned.
Analyzed == pc = "analyzed"

\* The index of the row a route number names.
RowOf(number) == CHOOSE k \in 1..Len(df) : df[k].text_route_number = number

HasPredecessor(k) == df[k].old_text_route_number # None

\* The four match conditions, as the specification words them: different
\* dates, same transport type, at least three of the five identifying
\* attributes equal, same departure and same destination code.
MatchCount(cur, cand) == Cardinality({col \in KeyColumnSet : cur[col] = cand[col]})

SameCorridor(cur, cand) ==
    /\ cur.departure_station_code_of_rf = cand.departure_station_code_of_rf
    /\ cur.destination_station_code_of_rf = cand.destination_station_code_of_rf

\* Two rows have the same date when both dates were parsed and are the same
\* day; a row without a date shares its date with no row.
SameDay(cur, cand) ==
    /\ cur.route_min_date # NaT
    /\ cand.route_min_date # NaT
    /\ DateRank(cur.route_min_date) = DateRank(cand.route_min_date)

FullMatch(cur, cand) ==
    /\ ~SameDay(cur, cand)
    /\ cur.type_of_transportation = cand.type_of_transportation
    /\ MatchCount(cur, cand) >= 3
    /\ SameCorridor(cur, cand)

\* M(k): the earlier rows that satisfy the whole predicate against row k.
MatchSet(k) == {c \in 1..(k - 1) : FullMatch(df[k], df[c])}

Largest(S) == CHOOSE x \in S : \A y \in S : y <= x

\* No output column of the row has been written since prepare_data.
Untouched(row) ==
    /\ row.category_route = NewRoute
    /\ row.old_text_route_number = None
    /\ row.changed_field = None
    /\ row.old_value_field = None

\* The output columns of a dataframe.
Outputs(frame) ==
    [k \in 1..Len(frame) |->
        << frame[k].category_route, frame[k].old_text_route_number,
           frame[k].changed_field, frame[k].old_value_field >>]

\* Date a is a parsed date strictly before the parsed date b.
StrictlyEarlier(a, b) == a # NaT /\ b # NaT /\ DateRank(a) < DateRank(b)

\* Every way of listing some of the key columns in their fixed order.
OrderedSublists ==
    {Join(SelectSeq(key_columns, LAMBDA col : col \in S)) : S \in SUBSET KeyColumnSet}

(***************************************************************************)
(* C1..C10                                                                 *)
(***************************************************************************)

\* C1: after one run of analyze_routes over freshly prepared rows, every row
\* that has an earlier row satisfying all four match conditions names the
\* nearest such row as its predecessor, also when a nearer row satisfies
\* conditions 1-3 and fails the corridor condition.
C1_NearestFullMatchIsPredecessor ==
    (Analyzed /\ passes = 1) =>
        \A k \in 2..Len(df) :
            MatchSet(k) # {} =>
                df[k].old_text_route_number = df[Largest(MatchSet(k))].text_route_number

\* C2: corridor invariant: in every state during and after classification no
\* row names a predecessor whose departure or destination code differs from
\* its own.
C2_CorridorInvariant ==
    Prepared =>
        \A k \in 1..Len(df) :
            HasPredecessor(k) => SameCorridor(df[k], df[RowOf(df[k].old_text_route_number)])

\* C3: after analyze_routes a row is CHANGED exactly when some earlier row
\* satisfies all four match conditions.
C3_ChangedIffFullMatch ==
    Analyzed =>
        \A k \in 1..Len(df) :
            (df[k].category_route = ChangedRoute) <=> (MatchSet(k) # {})

\* C3 witness: a run has marked a row CHANGED whose nearest candidate passes
\* the date, type and threshold conditions and fails the corridor condition,
\* so the scan went on to an older candidate.
C3_Witness ==
    /\ Analyzed
    /\ \E k \in 3..Len(df) :
          /\ df[k].category_route = ChangedRoute
          /\ ~SameDay(df[k], df[k - 1])
          /\ df[k].type_of_transportation = df[k - 1].type_of_transportation
          /\ MatchCount(df[k], df[k - 1]) >= 3
          /\ ~SameCorridor(df[k], df[k - 1])

\* C4: after analyze_routes every row without an earlier row satisfying all
\* four match conditions is NEW with a null predecessor and no changed fields
\* or old values: none of its output columns has been written.
C4_UnmatchedRowUntouched ==
    Analyzed =>
        \A k \in 1..Len(df) : MatchSet(k) = {} => Untouched(df[k])

\* C5: whenever a row names a predecessor, the predecessor's date is strictly
\* earlier than the row's own date; rows of equal date are never linked.
C5_PredecessorStrictlyEarlier ==
    Prepared =>
        \A k \in 1..Len(df) :
            HasPredecessor(k) =>
                StrictlyEarlier(df[RowOf(df[k].old_text_route_number)].route_min_date,
                                df[k].route_min_date)

\* C6 as stated: after analyze_routes every CHANGED row has a non-empty list
\* of changed fields, and the changed fields of every row are a sublist of the
\* five key columns in their fixed order.
C6_ChangedFieldsNonEmpty ==
    Analyzed =>
        \A k \in 1..Len(df) :
            /\ df[k].category_route = ChangedRoute =>
                   df[k].changed_field \notin {None, ""}
            /\ df[k].changed_field # None => df[k].changed_field \in OrderedSublists

\* C6 as amended: after analyze_routes every CHANGED row has its changed
\* fields written; the list is empty exactly when the row agrees with the
\* predecessor it names on all five key columns; and the changed fields of
\* every row are a sublist of the five key columns in their fixed order.
C6_ChangedFieldsWritten ==
    Analyzed =>
        \A k \in 1..Len(df) :
            /\ df[k].category_route = ChangedRoute => df[k].changed_field # None
            /\ HasPredecessor(k) =>
                   ((df[k].changed_field = "") <=>
                       (MatchCount(df[k], df[RowOf(df[k].old_text_route_number)]) = 5))
            /\ df[k].changed_field # None => df[k].changed_field \in OrderedSublists

\* C6 witness: a run has marked a row CHANGED that repeats all five key
\* columns of its predecessor, so its list of changed fields is empty.
C6_Witness ==
    /\ Analyzed
    /\ \E k \in 1..Len(df) :
          /\ df[k].category_route = ChangedRoute
          /\ df[k].changed_field = ""

\* C7: idempotence: once a first run of analyze_routes has returned, no step
\* of a further run changes category, predecessor, changed fields or old
\* values of any row, so the second run ends with the output of the first.
FirstRunReturned == passes >= 2 \/ (passes = 1 /\ Analyzed)

C7_SecondRunChangesNothing ==
    [][FirstRunReturned => Outputs(df') = Outputs(df)]_vars

\* C7 witness: a second run has returned over rows of which one names a
\* predecessor and has an older candidate that passes the date, type and
\* threshold conditions as well.
C7_Witness ==
    /\ Analyzed
    /\ passes = 2
    /\ \E k \in 3..Len(df) :
          /\ HasPredecessor(k)
          /\ RowOf(df[k].old_text_route_number) > 1
          /\ ~DateEq(df[k].route_min_date, df[1].route_min_date)
          /\ df[k].type_of_transportation = df[1].type_of_transportation
          /\ MatchCount(df[k], df[1]) >= MIN_MATCHING_KEY_THRESHOLD

\* C8: the first row in sort order is never the current row of a scan and
\* keeps category NEW, a null predecessor and no changed fields.
C8_FirstRowNeverScanned ==
    Prepared =>
        /\ Untouched(df[1])
        /\ pc = "scan" => i >= 2

\* C8 witness: a run has returned, and a later row was classified against the
\* first row, which is still untouched.
C8_Witness ==
    /\ Analyzed
    /\ \E k \in 2..Len(df) :
          /\ df[k].category_route = ChangedRoute
          /\ df[k].old_text_route_number = df[1].text_route_number

\* C9: prepare_data leaves every row NEW with null predecessor, changed fields
\* and old values; afterwards a category is NEW or CHANGED, and no step sets a
\* CHANGED row back to NEW.
C9_CategoryOnlyNewToChanged ==
    /\ [](pc = "prepared" => \A k \in 1..Len(df) : Untouched(df[k]))
    /\ [](Prepared =>
            \A k \in 1..Len(df) : df[k].category_route \in {NewRoute, ChangedRoute})
    /\ [][Prepared =>
            \A k \in 1..Len(df) :
                df[k].category_route = ChangedRoute =>
                    df'[k].category_route = ChangedRoute]_vars

\* C9 witness: in a second run the scan stands at a CHANGED row whose nearest
\* candidate does not match it.
C9_Witness ==
    /\ pc = "scan"
    /\ passes = 2
    /\ df[i].category_route = ChangedRoute
    /\ j = i - 1
    /\ ~compare_and_update_routes(df, i, j).result

\* C10: a row whose date could not be parsed takes part in no comparison,
\* neither as current row nor as candidate; it stays NEW with a null
\* predecessor, and no row names it as predecessor.
C10_NullDateRowExcluded ==
    Prepared =>
        /\ \A k \in 1..Len(df) :
              df[k].route_min_date = NaT =>
                  /\ df[k].category_route = NewRoute
                  /\ ~HasPredecessor(k)
                  /\ \A m \in 1..Len(df) :
                        df[m].old_text_route_number # df[k].text_route_number
        /\ pc = "scan" => df[i].route_min_date # NaT /\ df[j].route_min_date # NaT

(***************************************************************************)
(* C11..C14: the process                                                   *)
(***************************************************************************)

\* The process has ended.
Exited == pc = "exited"

\* The method or client call has been entered; how often.
TimesCalled(name) == Cardinality({k \in 1..Len(calls) : calls[k] = name})

Called(name) == TimesCalled(name) > 0

\* The place of the first entry of a call among the calls.
Position(name) == CHOOSE k \in 1..Len(calls) : calls[k] = name

\* The stages of run() after fetch_data, as they were entered.
StageCalls ==
    SelectSeq(calls, LAMBDA c : c \in {"prepare_data", "analyze_routes", "insert_data"})

\* fetch_data has returned rows; fetch_data has returned None.
FetchReturnedData == Called("fetch_data") /\ "fetch" \notin raised /\ Len(df) > 0

FetchReturnedNone == Called("fetch_data") /\ "fetch" \notin raised /\ Len(df) = 0

\* The route number ends in a number.
HasNumericSuffix(number) == \E n \in 0..(MaxRecords + 1) : number = "M_" \o ToString(n)

\* C11: a row whose route number has no numeric suffix does not abort the
\* run: prepare_data raises nothing, and when the process has ended the
\* insert has been attempted and the row is there with the category of a new
\* route.
C11_MalformedRouteIdIsolated ==
    \A k \in 1..Len(df) :
        ~HasNumericSuffix(df[k].text_route_number) =>
            /\ "prepare" \notin raised
            /\ Exited => /\ Called("insert_df")
                         /\ df[k].category_route = NewRoute

\* C12: run() enters fetch_data exactly once; when fetch_data returned rows,
\* prepare_data, analyze_routes and insert_data have each been entered
\* exactly once, in this order, when the process has ended; when it returned
\* None, none of them is entered and the process ends with status 0.
C12_StagesOnceInOrder ==
    /\ TimesCalled("fetch_data") <= 1
    /\ (Exited /\ "connect" \notin raised) => TimesCalled("fetch_data") = 1
    /\ \E n \in 0..3 :
          StageCalls = SubSeq(<< "prepare_data", "analyze_routes", "insert_data" >>, 1, n)
    /\ (Exited /\ FetchReturnedData) =>
          StageCalls = << "prepare_data", "analyze_routes", "insert_data" >>
    /\ (Exited /\ FetchReturnedNone) => (StageCalls = << >> /\ status = "0")

\* C13: in insert_data the file is written, or the attempt made, exactly
\* once and before the insert is attempted, whatever becomes of the insert;
\* and a failed write leaves the process running towards the insert.
C13_AuditBeforeInsert ==
    /\ TimesCalled("save_to_file") <= 1
    /\ TimesCalled("insert_df") <= 1
    /\ Called("insert_df") =>
          /\ TimesCalled("save_to_file") = 1
          /\ Position("save_to_file") < Position("insert_df")
    /\ (Exited /\ Called("insert_data")) => Called("insert_df")
    /\ "save" \in raised =>
          \/ pc = "saved" /\ status = "running"
          \/ Called("insert_df")

\* C13 witness: the file write failed, the insert was attempted after it and
\* failed too.
C13_Witness ==
    /\ Exited
    /\ raised = {"save", "insert"}
    /\ calls[Len(calls)] = "insert_df"
    /\ calls[Len(calls) - 1] = "save_to_file"

\* C14: the process ends with a status other than 0 exactly when the
\* connection, the fetch or the insert failed, an insert failing only after
\* the file write was attempted; it ends with 0 when the insert succeeded or
\* there were no rows; and after a failed connection nothing else is entered.
C14_ExitStatus ==
    Exited =>
        /\ status # "0" <=> raised \cap {"connect", "fetch", "insert"} # {}
        /\ "insert" \in raised => Called("save_to_file")
        /\ (Called("insert_df") /\ "insert" \notin raised) => status = "0"
        /\ FetchReturnedNone => status = "0"
        /\ "connect" \in raised => calls = << "connect_to_db" >>

(***************************************************************************)
(* C15..C20                                                                *)
(***************************************************************************)

\* The date, transport type and threshold conditions of a pair of rows.
PassesDateTypeThreshold(cur, cand) ==
    /\ ~SameDay(cur, cand)
    /\ cur.type_of_transportation = cand.type_of_transportation
    /\ MatchCount(cur, cand) >= 3

\* The predecessor, changed fields and old values of every row.
OldFields(frame) ==
    [k \in 1..Len(frame) |->
        << frame[k].old_text_route_number, frame[k].changed_field,
           frame[k].old_value_field >>]

\* The row that row k names as its predecessor.
PredecessorOf(k) == df[RowOf(df[k].old_text_route_number)]

\* C15: a named predecessor has the transport type of the row and agrees
\* with it on at least 3 of the 5 key columns; and a step writes predecessor,
\* changed fields or old values only for the current row of the scan and
\* only against a candidate that passes the date, type and threshold
\* conditions.
C15_PredecessorSameTypeAndThreshold ==
    /\ [](Prepared =>
            \A k \in 1..Len(df) :
                HasPredecessor(k) =>
                    /\ df[k].type_of_transportation
                           = PredecessorOf(k).type_of_transportation
                    /\ MatchCount(df[k], PredecessorOf(k)) >= 3)
    /\ [][(Prepared /\ OldFields(df') # OldFields(df)) =>
            /\ pc = "scan"
            /\ PassesDateTypeThreshold(df[i], df[j])
            /\ \A k \in 1..Len(df) : k # i => OldFields(df')[k] = OldFields(df)[k]]_vars

\* C15 witness: the scan of a row that names a predecessor stands at a
\* candidate of the same type and another day that agrees on fewer than 3
\* key columns.
C15_Witness ==
    /\ pc = "scan"
    /\ HasPredecessor(i)
    /\ ~SameDay(df[i], df[j])
    /\ df[i].type_of_transportation = df[j].type_of_transportation
    /\ MatchCount(df[i], df[j]) < 3

\* The key columns in which two rows differ, in the fixed order.
DifferingColumns(cur, cand) ==
    SelectSeq(key_columns, LAMBDA col : cur[col] # cand[col])

\* C16: whenever a row names a predecessor, its changed fields are exactly
\* the key columns in which it differs from that predecessor, listed in the
\* order departure, destination, payer, shipper, consignee.
C16_ChangedFieldsAreTheDifferences ==
    Prepared =>
        \A k \in 1..Len(df) :
            HasPredecessor(k) =>
                df[k].changed_field = Join(DifferingColumns(df[k], PredecessorOf(k)))

\* C16 witness: a row names a predecessor from which it differs in payer and
\* shipper.
C16_Witness ==
    /\ Analyzed
    /\ \E k \in 1..Len(df) :
          /\ HasPredecessor(k)
          /\ df[k].changed_field = "payer_of_the_railway_tariff_unified, shipper_okpo"

\* The display-name counterpart of a key column.
DisplayColumn(col) ==
    CASE col = "departure_station_code_of_rf" -> "departure_station_of_the_rf"
      [] col = "destination_station_code_of_rf" -> "rf_destination_station"
      [] col = "payer_of_the_railway_tariff_unified" -> "payer_of_the_railway_tariff_unified"
      [] col = "shipper_okpo" -> "shipper_by_puzt"
      [] col = "consignee_okpo" -> "consignee_by_puzt"

\* C17: whenever a row names a predecessor, its old values are, entry by
\* entry, the predecessor's display names of the changed fields: as many
\* entries as changed fields, taken from the predecessor, not from the row,
\* and from the display column, not the code column.
C17_OldValuesArePredecessorNames ==
    Prepared =>
        \A k \in 1..Len(df) :
            HasPredecessor(k) =>
                LET changed == DifferingColumns(df[k], PredecessorOf(k))
                IN df[k].old_value_field =
                       Join([n \in 1..Len(changed) |->
                                PredecessorOf(k)[DisplayColumn(changed[n])]])

\* C17 witness: a row with payer PAYER2 and shipper SHIP2 names a predecessor
\* with PAYER1 and SHIP1 and holds that predecessor's payer and shipper name.
C17_Witness ==
    /\ Analyzed
    /\ \E k \in 1..Len(df) :
          /\ HasPredecessor(k)
          /\ df[k].shipper_by_puzt = "name of SHIP2"
          /\ df[k].old_value_field = "PAYER1, name of SHIP1"

\* C18: write-once predecessor: no step, of a first or a repeated run,
\* changes predecessor, changed fields or old values of a row that names a
\* predecessor.
C18_PredecessorWrittenOnce ==
    [][Prepared =>
          \A k \in 1..Len(df) :
              HasPredecessor(k) => OldFields(df')[k] = OldFields(df)[k]]_vars

\* C18 witness: the scan of a row that names a predecessor stands at another
\* candidate that passes the date, type and threshold conditions.
C18_Witness ==
    /\ pc = "scan"
    /\ HasPredecessor(i)
    /\ df[i].old_text_route_number # df[j].text_route_number
    /\ PassesDateTypeThreshold(df[i], df[j])

\* The numeric suffix of a route number.
NumericSuffix(number) == CHOOSE n \in 0..(MaxRecords + 1) : number = "M_" \o ToString(n)

\* Rows a and b stand in ascending order of (date, numeric suffix), rows
\* without a date after the dated ones.
InSortOrder(a, b) ==
    /\ (a.route_min_date # NaT /\ b.route_min_date # NaT) =>
           DateRank(a.route_min_date) <= DateRank(b.route_min_date)
    /\ a.route_min_date = NaT => b.route_min_date = NaT
    /\ a.route_min_date = b.route_min_date =>
           NumericSuffix(a.text_route_number) <= NumericSuffix(b.text_route_number)

\* The prepared frame holds the fetched rows, each exactly once, with the
\* date parsed and the output columns added.
PermutationOf(fetched, prepared) ==
    /\ Len(prepared) = Len(fetched)
    /\ \A k \in 1..Len(fetched) :
          Cardinality({m \in 1..Len(prepared) :
              prepared[m] = WithOutputColumns(
                               [fetched[k] EXCEPT !.route_min_date = ToDate(@)])}) = 1

SameIndexKey(cur, cand) ==
    /\ cur.type_of_transportation = cand.type_of_transportation
    /\ SameCorridor(cur, cand)

RECURSIVE PrunedScan(_, _, _)
PrunedScan(frame, cur, cand) ==
    IF cand = 0 THEN frame
    ELSE IF ~SameIndexKey(frame[cur], frame[cand])
    THEN PrunedScan(frame, cur, cand - 1)
    ELSE LET call == compare_and_update_routes(frame, cur, cand)
         IN IF call.result
            THEN [call.df EXCEPT ![cur].category_route = ChangedRoute]
            ELSE PrunedScan(call.df, cur, cand - 1)

RECURSIVE PrunedAnalyze(_, _)
PrunedAnalyze(frame, cur) ==
    IF cur > Len(frame) THEN frame
    ELSE PrunedAnalyze(PrunedScan(frame, cur, cur - 1), cur + 1)

\* C20: pruning equivalence: over the same prepared rows the pruned scan and
\* the full scan of analyze_routes end with the same category, predecessor,
\* changed fields and old values for every row.
C20_PrunedScanSameOutputs ==
    (Analyzed /\ passes = 1) =>
        Outputs(df) = Outputs(PrunedAnalyze([k \in 1..Len(df) |-> WithOutputColumns(df[k])], 2))

(***************************************************************************)
(* C21..C22                                                                *)
(***************************************************************************)

\* C21: the destination table is emptied only to be written anew: when the
\* process has ended without an attempt to insert the rows, the table holds
\* what it held before the process started.
C21_TableClearedOnlyWhenReplaced ==
    (Exited /\ ~Called("insert_df")) => table = PriorTable

\* The columns of a row that analyze_routes is not to write.
InputColumns(row) ==
    [f \in DOMAIN row \ {"category_route", "old_text_route_number",
                         "changed_field", "old_value_field"} |-> row[f]]

\* The first k prepared rows as prepare_data returns them.
PreparedPrefix(k) == [m \in 1..k |-> WithOutputColumns(df[m])]

\* C22: frame of the classifier: no step after prepare_data changes the
\* number or order of the rows or any column other than category,
\* predecessor, changed fields and old values, and a step that changes a row
\* is a scan step changing the current row only, never the candidate; and
\* the outputs of every row after analyze_routes are the outputs it gets
\* when analyze_routes runs over the rows up to it alone.
C22_ClassifierFrame ==
    /\ [][Prepared =>
            /\ Len(df') = Len(df)
            /\ \A k \in 1..Len(df) :
                  /\ InputColumns(df'[k]) = InputColumns(df[k])
                  /\ df'[k] # df[k] => (pc = "scan" /\ k = i)]_vars
    /\ [](Analyzed =>
            \A k \in 1..Len(df) :
                Outputs(df)[k] = Outputs(analyze_routes(PreparedPrefix(k), 2))[k])

\* C22 witness: analyze_routes has returned over three rows, the second
\* marked as changed with a predecessor, the third naming a predecessor too.
C22_Witness ==
    /\ Analyzed
    /\ Len(df) = 3
    /\ df[2].category_route = ChangedRoute
    /\ HasPredecessor(2)
    /\ HasPredecessor(3)

====
